---- MODULE Spec2Model ----
(***************************************************************************)
(* EMT Madrid API wrapper: the synchronous client APIEMT                   *)
(* (emt_madrid/emt_madrid.py) and the free-function parsers                *)
(* (emt_madrid/parser.py), modelled over already-deserialized JSON.        *)
(*                                                                         *)
(* Python values.  A nullable value is an option: None is <<>> and a       *)
(* present value v is <<v>>.  A dict with fixed keys is a record, a dict   *)
(* keyed by line label is a function over the labels it holds, a list is   *)
(* a sequence, a str that the code searches is a sequence of characters.   *)
(* A JSON key that is absent is Absent; a key that is present holds        *)
(* Some(value).                                                            *)
(***************************************************************************)
EXTENDS Integers, Sequences, FiniteSets, TLC

VARIABLES
    _token,       \* APIEMT._token
    _stop_info,   \* APIEMT._stop_info
    stop_info,    \* the stop_info dict handed to parser.parse_stop_info / parse_arrivals
    last          \* the last call: operation, argument, response received, outcome

vars == <<_token, _stop_info, stop_info, last>>

None == <<>>
Some(v) == <<v>>
Absent == <<>>

Return(v) == [kind |-> "return", value |-> v]
Raise(e) == [kind |-> "raise", exc |-> e]

(***************************************************************************)
(* Bounds of the model.                                                    *)
(***************************************************************************)
MaxArrive == 3   \* longest Arrive array of an arrivals response
MaxLines == 2    \* longest dataLine array of a stop-detail response

SeqsUpTo(S, n) == UNION {[1..k -> S] : k \in 0..n}

(***************************************************************************)
(* Program constants.                                                      *)
(***************************************************************************)
InvalidTokenMarker == "Invalid token"
SecondsPerMinute == 60
MaxMinutes == 45

(***************************************************************************)
(* str helpers: `"token" in description` and int("12").                    *)
(***************************************************************************)
IsPrefixAt(sub, s, i) ==
    /\ i + Len(sub) - 1 <= Len(s)
    /\ \A k \in 1..Len(sub) : s[i + k - 1] = sub[k]

Contains(sub, s) == \E i \in 1..(Len(s) + 1) : IsPrefixAt(sub, s, i)

TokenWord == <<"t", "o", "k", "e", "n">>

DigitValue(c) ==
    CASE c = "0" -> 0 [] c = "1" -> 1 [] c = "2" -> 2 [] c = "3" -> 3 [] c = "4" -> 4
      [] c = "5" -> 5 [] c = "6" -> 6 [] c = "7" -> 7 [] c = "8" -> 8 [] c = "9" -> 9

RECURSIVE int(_)
int(s) == IF s = <<>> THEN 0 ELSE 10 * int(SubSeq(s, 1, Len(s) - 1)) + DigitValue(s[Len(s)])

(***************************************************************************)
(* math.trunc(x / 60): rounds toward zero.                                 *)
(***************************************************************************)
trunc_div(x, d) == IF x >= 0 THEN x \div d ELSE -((-x) \div d)

min(a, b) == IF a <= b THEN a ELSE b

\* Variant without the 45-minute cap.
arrival_time_uncapped(estimateArrive) == trunc_div(estimateArrive, SecondsPerMinute)

arrival_time(estimateArrive) == min(trunc_div(estimateArrive, SecondsPerMinute), MaxMinutes)

(***************************************************************************)
(* dict helpers.                                                           *)
(***************************************************************************)
EmptyDict == [l \in {} |-> None]

DictSet(d, k, v) == [l \in (DOMAIN d) \cup {k} |-> IF l = k THEN v ELSE d[l]]

(***************************************************************************)
(* Inputs: the responses the transport can hand back.                      *)
(***************************************************************************)
Labels == {"27", "45"}
UnknownLabel == "99"
AllLabels == Labels \cup {UnknownLabel}
StopIds == {"1234"}

LineRecord(label, direction) ==
    [label |-> label, direction |-> direction,
     headerA |-> "PLAZA", headerB |-> "ESTACION",
     maxFreq |-> <<"1", "2">>, minFreq |-> <<"7">>,
     startTime |-> "05:35", stopTime |-> "22:45", dayType |-> "LA"]

LineRecords == {LineRecord("27", "A"), LineRecord("45", "B"), LineRecord("45", "C")}

StopRecord(dataLine) ==
    [stop |-> "72", name |-> "Cibeles", geometry |-> [coordinates |-> <<-3, 40>>],
     postalAddress |-> "Pza. de Cibeles", dataLine |-> dataLine]

StopPayloads == {Some(<<[stops |-> <<StopRecord(dl)>>]>>) : dl \in SeqsUpTo(LineRecords, MaxLines)}

MalformedData == {Absent, Some(<<>>)}

StopResponses ==
    [code : {"00"}, data : StopPayloads \cup MalformedData \cup {Some(<<[stops |-> <<>>]>>)}]
    \cup [code : {"80", "90", "98"},
          data : {Some(<<[stops |-> <<StopRecord(<<LineRecord("45", "B")>>)>>]>>)}]

ArrivalRecord(line, seconds, distance) ==
    [line |-> line, estimateArrive |-> seconds, DistanceBus |-> distance]

RecA == ArrivalRecord("27", Some(125), Some(100))
RecB == ArrivalRecord("27", Some(3600), None)
RecC == ArrivalRecord("45", Some(-30), Some(200))
RecUnknown == ArrivalRecord(UnknownLabel, Some(59), Some(300))
RecNoEstimate == ArrivalRecord("27", None, Some(100))

ArrivalRecords == {RecA, RecB, RecC}

ArriveArrays ==
    SeqsUpTo(ArrivalRecords, MaxArrive)
    \cup {<<RecUnknown>>, <<RecA, RecUnknown>>, <<RecUnknown, RecC, RecA>>,
          <<RecNoEstimate>>, <<RecC, RecNoEstimate>>}

ArrivePayloads ==
    {Some(<<[Arrive |-> Some(a)]>>) : a \in ArriveArrays} \cup {Some(<<[Arrive |-> Absent]>>)}

DescToken == <<"b", "a", "d", " ", "t", "o", "k", "e", "n">>
DescTokenCapital == <<"T", "o", "k", "e", "n", " ", "e", "x", "p">>
DescStop == <<"n", "o", " ", "s", "t", "o", "p">>

ArrivalResponses ==
    [code : {"00"}, description : {Some(<<"o", "k">>)}, data : ArrivePayloads \cup MalformedData]
    \cup [code : {"80"}, description : {Some(DescToken), Some(DescTokenCapital), Some(DescStop), Absent},
          data : {Some(<<[Arrive |-> Some(<<RecA>>)]>>)}]

TokenResponses ==
    [code : {"01"}, data : {Absent, Some(<<[accessToken |-> Some("tok1")]>>),
                            Some(<<[accessToken |-> Absent]>>)}]
    \cup [code : {"89"}, data : {Some(<<>>)}]

(***************************************************************************)
(* The line loop shared by both flavours (APIEMT._parse_lines and          *)
(* parser.parse_lines hold the same text): one LineInfo per record, a      *)
(* later record of the same label replacing the earlier one.               *)
(***************************************************************************)
LineInfoOf(line) ==
    [destination |-> Some(IF line.direction = "A" THEN line.headerA ELSE line.headerB),
     origin |-> Some(IF line.direction = "B" THEN line.headerA ELSE line.headerB),
     max_freq |-> Some(int(line.maxFreq)),
     min_freq |-> Some(int(line.minFreq)),
     start_time |-> Some(line.startTime),
     end_time |-> Some(line.stopTime),
     day_type |-> Some(line.dayType),
     distance |-> <<>>,
     arrivals |-> <<>>]

RECURSIVE parse_lines(_)
parse_lines(lines) ==
    IF lines = <<>> THEN EmptyDict
    ELSE LET n == Len(lines)
         IN DictSet(parse_lines(SubSeq(lines, 1, n - 1)), lines[n].label, LineInfoOf(lines[n]))

_parse_lines(lines) == parse_lines(lines)

(***************************************************************************)
(* The arrivals loop shared by both flavours: clear every line, then       *)
(* append each record to its line.  A record whose estimateArrive is None  *)
(* raises TypeError at the division, leaving what was appended so far.     *)
(***************************************************************************)
\* Variant that keeps what earlier fetches appended.
ClearLines_accumulate(lines) == lines

ClearLines(lines) ==
    [l \in DOMAIN lines |-> [lines[l] EXCEPT !.arrivals = <<>>, !.distance = <<>>]]

AppendArrival(lines, arrival) ==
    LET line == arrival.line
        minutes == arrival_time(arrival.estimateArrive[1])
    IN IF line \in DOMAIN lines
       THEN [lines EXCEPT ![line].arrivals = Append(@, Some(minutes)),
                          ![line].distance = Append(@, arrival.DistanceBus)]
       ELSE lines

RECURSIVE AppendArrivals(_, _)
AppendArrivals(lines, arrivals) ==
    IF arrivals = <<>> THEN [exc |-> None, lines |-> lines]
    ELSE IF Head(arrivals).estimateArrive = None THEN [exc |-> Some("TypeError"), lines |-> lines]
    ELSE AppendArrivals(AppendArrival(lines, Head(arrivals)), Tail(arrivals))

(***************************************************************************)
(* APIEMT (emt_madrid.py).  Each operator yields the call's outcome and    *)
(* the _stop_info it leaves.                                               *)
(***************************************************************************)
InitStopInfo ==
    [bus_stop_id |-> None, bus_stop_name |-> None, bus_stop_coordinates |-> None,
     bus_stop_address |-> None, lines |-> EmptyDict]

_extract_token(response) ==
    IF response.code # "01" THEN Return(Some(InvalidTokenMarker))
    ELSE IF response.data = Absent THEN Raise("ValueError")
    ELSE IF response.data[1] = <<>> THEN Raise("ValueError")
    ELSE IF response.data[1][1].accessToken = Absent THEN Raise("ValueError")
    ELSE Return(response.data[1][1].accessToken)

_parse_stop_info(response, stop_id, info) ==
    IF response.code # "00" THEN [out |-> Return(None), info |-> info]
    ELSE IF response.data = Absent THEN [out |-> Raise("ValueError"), info |-> info]
    ELSE IF response.data[1] = <<>> THEN [out |-> Raise("ValueError"), info |-> info]
    ELSE IF response.data[1][1].stops = <<>> THEN [out |-> Raise("ValueError"), info |-> info]
    ELSE LET stop == response.data[1][1].stops[1]
         IN [out |-> Return(None),
             info |-> [bus_stop_id |-> Some(stop_id),
                       bus_stop_name |-> Some(stop.name),
                       bus_stop_coordinates |-> Some(stop.geometry.coordinates),
                       bus_stop_address |-> Some(stop.postalAddress),
                       lines |-> _parse_lines(stop.dataLine)]]

_parse_arrivals(response, info) ==
    IF response.code = "80" THEN [out |-> Return(None), info |-> info]
    ELSE LET cleared == [info EXCEPT !.lines = ClearLines(info.lines)]
         IN IF response.data = Absent THEN [out |-> Raise("ValueError"), info |-> cleared]
            ELSE IF response.data[1] = <<>> THEN [out |-> Raise("ValueError"), info |-> cleared]
            ELSE LET arrive == response.data[1][1].Arrive
                     arrivals == IF arrive = Absent THEN <<>> ELSE arrive[1]
                     done == AppendArrivals(cleared.lines, arrivals)
                 IN [out |-> IF done.exc = None THEN Return(None) ELSE Raise(done.exc[1]),
                     info |-> [cleared EXCEPT !.lines = done.lines]]

RECURSIVE PadTo(_, _)
PadTo(list, n) == IF Len(list) < n THEN PadTo(Append(list, None), n) ELSE list

get_arrival_time(line, info) ==
    IF line \notin DOMAIN info.lines THEN [out |-> Return(<<None, None>>), info |-> info]
    ELSE LET arrivals == PadTo(info.lines[line].arrivals, 2)
         IN [out |-> Return(arrivals), info |-> [info EXCEPT !.lines[line].arrivals = arrivals]]

NoLineInfo ==
    [destination |-> None, origin |-> None, max_freq |-> None, min_freq |-> None,
     start_time |-> None, end_time |-> None, day_type |-> None,
     distance |-> <<None>>, arrivals |-> <<None, None>>]

get_line_info(line, info) ==
    IF line \in DOMAIN info.lines
    THEN LET line_info == IF Len(info.lines[line].distance) = 0
                          THEN [info.lines[line] EXCEPT !.distance = Append(@, None)]
                          ELSE info.lines[line]
         IN [out |-> Return(line_info), info |-> [info EXCEPT !.lines[line] = line_info]]
    ELSE [out |-> Return(NoLineInfo), info |-> info]

get_stop_info(info) == [out |-> Return(info), info |-> info]

(***************************************************************************)
(* Free functions (parser.py).  stop_info is the caller's dict, updated in *)
(* place; KeyError, IndexError and TypeError are not caught here and       *)
(* propagate under their own names.                                        *)
(***************************************************************************)
EmptyStopInfo ==
    [stop_id |-> None, stop_name |-> None, stop_coordinates |-> None,
     stop_address |-> None, lines |-> EmptyDict]

InvalidTokenError == [error |-> InvalidTokenMarker]

parse_token(response) ==
    IF response.code = "01"
    THEN IF response.data = Absent THEN Raise("KeyError")
         ELSE IF response.data[1] = <<>> THEN Raise("IndexError")
         ELSE Return(response.data[1][1].accessToken)
    ELSE Return(None)

parse_stop_info(response, info) ==
    IF response.code = "90" THEN [out |-> Return(None), info |-> info]
    ELSE IF response.code = "80" THEN [out |-> Return(Some(InvalidTokenError)), info |-> info]
    ELSE IF response.data = Absent THEN [out |-> Raise("KeyError"), info |-> info]
    ELSE IF response.data[1] = <<>> THEN [out |-> Raise("IndexError"), info |-> info]
    ELSE IF response.data[1][1].stops = <<>> THEN [out |-> Raise("IndexError"), info |-> info]
    ELSE LET response_stop == response.data[1][1].stops[1]
             updated == [stop_id |-> Some(response_stop.stop),
                         stop_name |-> Some(response_stop.name),
                         stop_coordinates |-> Some(response_stop.geometry.coordinates),
                         stop_address |-> Some(response_stop.postalAddress),
                         lines |-> parse_lines(response_stop.dataLine)]
         IN [out |-> Return(Some(updated)), info |-> updated]

parse_arrivals(response, info) ==
    IF response.code = "80" /\ response.description = Absent
    THEN [out |-> Raise("TypeError"), info |-> info]
    ELSE IF response.code = "80" /\ Contains(TokenWord, response.description[1])
    THEN [out |-> Return(Some(InvalidTokenError)), info |-> info]
    ELSE IF response.code = "80" THEN [out |-> Return(None), info |-> info]
    ELSE LET cleared == [info EXCEPT !.lines = ClearLines(info.lines)]
         IN IF response.data = Absent THEN [out |-> Raise("KeyError"), info |-> cleared]
            ELSE IF response.data[1] = <<>> THEN [out |-> Raise("IndexError"), info |-> cleared]
            ELSE LET arrive == response.data[1][1].Arrive
                     arrivals == IF arrive = Absent THEN <<>> ELSE arrive[1]
                     done == AppendArrivals(cleared.lines, arrivals)
                     result == [cleared EXCEPT !.lines = done.lines]
                 IN [out |-> IF done.exc = None THEN Return(Some(result)) ELSE Raise(done.exc[1]),
                     info |-> result]

(***************************************************************************)
(* State machine of one APIEMT instance.  _make_request hands back the     *)
(* response; when it raises instead, the call propagates the error before  *)
(* touching any state, so that case adds no transition.                    *)
(***************************************************************************)
NoResponse == [code |-> "none"]

Call(op, arg, sent, response, out) ==
    [op |-> op, arg |-> arg, sent |-> sent, response |-> response, out |-> out]

Init ==
    /\ _token = None
    /\ _stop_info = InitStopInfo
    /\ stop_info = EmptyStopInfo
    /\ last = Call("init", "", FALSE, NoResponse, Return(None))

authenticate(response) ==
    LET out == _extract_token(response)
    IN /\ _token' = IF out.kind = "return" THEN out.value ELSE _token
       /\ last' = Call("authenticate", "", TRUE, response, out)
       /\ UNCHANGED <<_stop_info, stop_info>>

\* Variant without the invalid-token guard.
update_stop_info_unguarded(stop_id, response) ==
    LET r == _parse_stop_info(response, stop_id, _stop_info)
    IN /\ _stop_info' = r.info
       /\ last' = Call("update_stop_info", stop_id, TRUE, response, r.out)
       /\ UNCHANGED <<_token, stop_info>>

update_stop_info(stop_id, response) ==
    IF _token # Some(InvalidTokenMarker)
    THEN LET r == _parse_stop_info(response, stop_id, _stop_info)
         IN /\ _stop_info' = r.info
            /\ last' = Call("update_stop_info", stop_id, TRUE, response, r.out)
            /\ UNCHANGED <<_token, stop_info>>
    ELSE /\ last' = Call("update_stop_info", stop_id, FALSE, NoResponse, Return(None))
         /\ UNCHANGED <<_token, _stop_info, stop_info>>

update_arrival_times(stop, response) ==
    IF _token # Some(InvalidTokenMarker)
    THEN LET r == _parse_arrivals(response, _stop_info)
         IN /\ _stop_info' = r.info
            /\ last' = Call("update_arrival_times", stop, TRUE, response, r.out)
            /\ UNCHANGED <<_token, stop_info>>
    ELSE /\ last' = Call("update_arrival_times", stop, FALSE, NoResponse, Return(None))
         /\ UNCHANGED <<_token, _stop_info, stop_info>>

Getter(op, line, r) ==
    /\ _stop_info' = r.info
    /\ last' = Call(op, line, FALSE, NoResponse, r.out)
    /\ UNCHANGED <<_token, stop_info>>

Authenticate == \E response \in TokenResponses : authenticate(response)
UpdateStopInfo == \E stop_id \in StopIds, response \in StopResponses : update_stop_info(stop_id, response)
UpdateArrivalTimes == \E response \in ArrivalResponses : update_arrival_times("1234", response)
GetStopInfo == Getter("get_stop_info", "", get_stop_info(_stop_info))
GetArrivalTime == \E line \in AllLabels : Getter("get_arrival_time", line, get_arrival_time(line, _stop_info))
GetLineInfo == \E line \in AllLabels : Getter("get_line_info", line, get_line_info(line, _stop_info))

Next ==
    \/ Authenticate
    \/ UpdateStopInfo
    \/ UpdateArrivalTimes
    \/ GetStopInfo
    \/ GetArrivalTime
    \/ GetLineInfo

Spec == Init /\ [][Next]_vars

(***************************************************************************)
(* The free functions driven directly: any response, applied to the        *)
(* stop_info the previous calls left.                                      *)
(***************************************************************************)
ParserCall(op, response, r) ==
    /\ stop_info' = r.info
    /\ last' = Call(op, "", FALSE, response, r.out)
    /\ UNCHANGED <<_token, _stop_info>>

ParseToken ==
    \E response \in TokenResponses :
        ParserCall("parse_token", response, [out |-> parse_token(response), info |-> stop_info])
ParseStopInfo ==
    \E response \in StopResponses :
        ParserCall("parse_stop_info", response, parse_stop_info(response, stop_info))
ParseArrivals ==
    \E response \in ArrivalResponses :
        ParserCall("parse_arrivals", response, parse_arrivals(response, stop_info))

ParserNext ==
    \/ ParseToken
    \/ ParseStopInfo
    \/ ParseArrivals

ParserSpec == Init /\ [][ParserNext]_vars

(***************************************************************************)
(* Properties.                                                             *)
(***************************************************************************)
ArriveOf(response) ==
    IF response.data[1][1].Arrive = Absent THEN <<>> ELSE response.data[1][1].Arrive[1]

EntriesOf(response, label) ==
    LET OfLine(a) == a.line = label IN SelectSeq(ArriveOf(response), OfLine)

IsUpdate(call) == call.op \in {"update_stop_info", "update_arrival_times"}

ParsedArrivals(call, op) ==
    /\ call.op = op
    /\ call.response.code = "00"
    /\ call.out.kind = "return"

\* C1: get_arrival_time returns exactly two entries, for known and unknown lines.
C1_TwoEntries ==
    last.op = "get_arrival_time" => Len(last.out.value) = 2

\* C2: with the invalid-token marker stored, update_stop_info and
\* update_arrival_times send no request and leave snapshot and token unchanged.
C2_InvalidTokenNoOp ==
    [][(_token = Some(InvalidTokenMarker) /\ IsUpdate(last'))
        => (~last'.sent /\ _stop_info' = _stop_info /\ _token' = _token)]_vars

C2_Witness ==
    /\ _token = Some(InvalidTokenMarker)
    /\ IsUpdate(last)
    /\ ~last.sent
    /\ DOMAIN _stop_info.lines # {}

\* C2 (scenario): after a rejected authenticate on a fresh client, update_stop_info
\* leaves the lines mapping empty.
C2_ScenarioWitness ==
    /\ _token = Some(InvalidTokenMarker)
    /\ last.op = "update_stop_info"
    /\ _stop_info = InitStopInfo

\* C3: after a successful arrivals parse every line holds exactly the entries the
\* latest response reports for it, in order, arrivals and distance index-aligned;
\* unreported lines are empty and records of unknown lines add no line.
C3_ArrivalsRebuilt ==
    ParsedArrivals(last, "update_arrival_times") =>
        /\ UnknownLabel \notin DOMAIN _stop_info.lines
        /\ \A l \in DOMAIN _stop_info.lines :
            LET mine == EntriesOf(last.response, l)
                info == _stop_info.lines[l]
            IN /\ Len(info.arrivals) = Len(mine)
               /\ Len(info.distance) = Len(mine)
               /\ \A i \in 1..Len(mine) :
                    /\ info.arrivals[i] = Some(arrival_time(mine[i].estimateArrive[1]))
                    /\ info.distance[i] = mine[i].DistanceBus

C3_Witness ==
    /\ ParsedArrivals(last, "update_arrival_times")
    /\ ArriveOf(last.response) = <<RecUnknown, RecC, RecA>>
    /\ DOMAIN _stop_info.lines = {"27", "45"}

\* C4: direction "A" gives destination=headerA, origin=headerB; every other
\* direction gives destination=headerB, origin=headerA.
C4_DirectionSwap ==
    (last.op = "parse_stop_info" /\ last.response.code \notin {"80", "90"}
        /\ last.out.kind = "return") =>
        LET dataLine == last.response.data[1][1].stops[1].dataLine
        IN \A i \in 1..Len(dataLine) :
            (\A j \in (i + 1)..Len(dataLine) : dataLine[j].label # dataLine[i].label) =>
                LET info == stop_info.lines[dataLine[i].label]
                IN IF dataLine[i].direction = "A"
                   THEN info.destination = Some(dataLine[i].headerA)
                        /\ info.origin = Some(dataLine[i].headerB)
                   ELSE info.destination = Some(dataLine[i].headerB)
                        /\ info.origin = Some(dataLine[i].headerA)

\* C5: an arrivals response with code "80" yields the invalid-token result when its
\* description contains "token" and the stop-disabled result otherwise, and leaves
\* the snapshot as it was.
C5_Code80Branches ==
    [][(last'.op = "update_arrival_times" /\ last'.sent /\ last'.response.code = "80"
          /\ last'.response.description # Absent)
        => /\ _stop_info' = _stop_info
           /\ last'.out = IF Contains(TokenWord, last'.response.description[1])
                          THEN Return(Some(InvalidTokenError))
                          ELSE Return(None)]_vars

\* C6: a stop-detail response with code "90" returns nothing and one with code "80"
\* returns the invalid-token marker, both leaving the snapshot unchanged; any other
\* code with a well-formed payload replaces stop fields and the whole lines mapping.
C6_StopInfoBranches ==
    [][(last'.op = "update_stop_info" /\ last'.sent)
        => CASE last'.response.code = "90" ->
                    last'.out = Return(None) /\ _stop_info' = _stop_info
             [] last'.response.code = "80" ->
                    last'.out = Return(Some(InvalidTokenError)) /\ _stop_info' = _stop_info
             [] OTHER ->
                    (last'.response.data \in StopPayloads) =>
                        LET stop == last'.response.data[1][1].stops[1]
                        IN /\ _stop_info'.bus_stop_name = Some(stop.name)
                           /\ _stop_info'.bus_stop_id = Some(last'.arg)
                           /\ DOMAIN _stop_info'.lines = {stop.dataLine[i].label : i \in 1..Len(stop.dataLine)}
                           /\ \A l \in DOMAIN _stop_info'.lines :
                                _stop_info'.lines[l].arrivals = <<>>
                                /\ _stop_info'.lines[l].distance = <<>>]_vars

\* C7: token extraction returns accessToken for code "01" and, for every other
\* code, a marker that differs from the null "not yet authenticated" value.
C7_TokenMarker ==
    (last.op = "parse_token" /\ last.out.kind = "return") =>
        IF last.response.code = "01"
        THEN last.out.value = last.response.data[1][1].accessToken
        ELSE last.out.value # None

\* C8 (as stated): every stored arrival equals min(floor(estimateArrive / 60), 45).
C8_FloorMinutes ==
    ParsedArrivals(last, "parse_arrivals") =>
        \A l \in DOMAIN stop_info.lines :
            LET mine == EntriesOf(last.response, l)
            IN \A i \in 1..Len(mine) :
                stop_info.lines[l].arrivals[i]
                    = Some(min(mine[i].estimateArrive[1] \div SecondsPerMinute, MaxMinutes))

TowardZero(x) == IF x >= 0 THEN x \div SecondsPerMinute ELSE 0 - ((0 - x) \div SecondsPerMinute)

\* C8 (amended): every stored arrival equals min(estimateArrive / 60 rounded toward
\* zero, 45), which is the floor for estimateArrive >= 0: 59 gives 0, 125 gives 2,
\* 3600 gives 45; no stored arrival exceeds 45.
C8_TruncMinutes ==
    /\ arrival_time(59) = 0 /\ arrival_time(125) = 2 /\ arrival_time(3600) = 45
    /\ \A l \in DOMAIN stop_info.lines :
        \A i \in 1..Len(stop_info.lines[l].arrivals) :
            stop_info.lines[l].arrivals[i][1] <= MaxMinutes
    /\ ParsedArrivals(last, "parse_arrivals") =>
        \A l \in DOMAIN stop_info.lines :
            LET mine == EntriesOf(last.response, l)
            IN \A i \in 1..Len(mine) :
                LET seconds == mine[i].estimateArrive[1]
                    minutes == stop_info.lines[l].arrivals[i][1]
                IN /\ minutes = min(TowardZero(seconds), MaxMinutes)
                   /\ seconds >= 0 => minutes = min(seconds \div SecondsPerMinute, MaxMinutes)

C8_Witness ==
    /\ ParsedArrivals(last, "parse_arrivals")
    /\ ArriveOf(last.response) = <<RecB, RecC, RecA>>
    /\ DOMAIN stop_info.lines = {"27", "45"}
    /\ stop_info.lines["27"].arrivals = <<Some(45), Some(2)>>
    /\ stop_info.lines["45"].arrivals = <<Some(0)>>

HasNoEstimate(arrivals) == \E i \in 1..Len(arrivals) : arrivals[i].estimateArrive = None

\* C9: a success-code response missing an expected field makes the parse fail; it
\* never completes normally with a defaulted value.
C9_MalformedFails ==
    /\ (last.op = "parse_token" /\ last.response.code = "01"
          /\ (\/ last.response.data \in MalformedData
              \/ last.response.data[1][1].accessToken = Absent))
        => last.out.kind = "raise"
    /\ (last.op = "parse_arrivals" /\ last.response.code = "00"
          /\ (\/ last.response.data \in MalformedData
              \/ last.response.data[1][1].Arrive = Absent
              \/ HasNoEstimate(last.response.data[1][1].Arrive[1])))
        => last.out.kind = "raise"

\* C10: in every reachable state each stored line has arrivals and distance of the
\* same length, getters included.
C10_ParallelSequences ==
    \A l \in DOMAIN _stop_info.lines :
        Len(_stop_info.lines[l].arrivals) = Len(_stop_info.lines[l].distance)

(***************************************************************************)
(* The same properties on the other flavour, for comparison.               *)
(***************************************************************************)
\* parser.parse_arrivals keeps the two code "80" branches apart and leaves stop_info alone.
Parser_Code80Branches ==
    [][(last'.op = "parse_arrivals" /\ last'.response.code = "80"
          /\ last'.response.description # Absent)
        => /\ stop_info' = stop_info
           /\ last'.out = IF Contains(TokenWord, last'.response.description[1])
                          THEN Return(Some(InvalidTokenError))
                          ELSE Return(None)]_vars

\* parser.parse_stop_info: "90" returns None, "80" the error dict, anything else replaces.
Parser_StopInfoBranches ==
    [][(last'.op = "parse_stop_info")
        => CASE last'.response.code = "90" ->
                    last'.out = Return(None) /\ stop_info' = stop_info
             [] last'.response.code = "80" ->
                    last'.out = Return(Some(InvalidTokenError)) /\ stop_info' = stop_info
             [] OTHER ->
                    (last'.response.data \in StopPayloads) =>
                        LET stop == last'.response.data[1][1].stops[1]
                        IN /\ stop_info'.stop_name = Some(stop.name)
                           /\ stop_info'.stop_id = Some(stop.stop)
                           /\ DOMAIN stop_info'.lines = {stop.dataLine[i].label : i \in 1..Len(stop.dataLine)}
                           /\ \A l \in DOMAIN stop_info'.lines :
                                stop_info'.lines[l].arrivals = <<>>
                                /\ stop_info'.lines[l].distance = <<>>
                           /\ last'.out = Return(Some(stop_info'))]_vars

\* APIEMT._extract_token / authenticate: the stored token is the accessToken for
\* code "01" and the "Invalid token" marker otherwise, never None again.
Client_TokenMarker ==
    (last.op = "authenticate" /\ last.out.kind = "return") =>
        /\ _token = last.out.value
        /\ _token # None
        /\ IF last.response.code = "01"
           THEN _token = last.response.data[1][1].accessToken
           ELSE _token = Some(InvalidTokenMarker)

\* parser.parse_arrivals rebuilds every line from the latest response.
Parser_ArrivalsRebuilt ==
    ParsedArrivals(last, "parse_arrivals") =>
        \A l \in DOMAIN stop_info.lines :
            LET mine == EntriesOf(last.response, l)
                info == stop_info.lines[l]
            IN /\ Len(info.arrivals) = Len(mine)
               /\ Len(info.distance) = Len(mine)
               /\ \A i \in 1..Len(mine) :
                    /\ info.arrivals[i] = Some(arrival_time(mine[i].estimateArrive[1]))
                    /\ info.distance[i] = mine[i].DistanceBus

====
